---- MODULE Spec2Model ----
(***************************************************************************)
(* Model of the shell agent of shell-control/agent/backend/shellcontrol.py *)
(* (ShellAgent.process_user_request, its LLMClient and its shell runner).  *)
(*                                                                         *)
(* Conventions                                                             *)
(*  - Python None is the string NoneVal, an unbound local is Unbound.      *)
(*  - Money is counted in units of 10^-7 USD, so that                      *)
(*    tokens / 1_000_000 * 0.4 USD = tokens * 4 units and 0.5 USD =        *)
(*    5000000 units; the arithmetic is exact (the code uses doubles).      *)
(*  - A text built by concatenation is the sequence of its pieces;         *)
(*    additional_error is such a text, <<>> when it is None.               *)
(*  - The grave accent (U+0060) cannot be written in a string here; a      *)
(*    code fence, three of them, is written ~~~.                           *)
(***************************************************************************)
EXTENDS Integers, Sequences, FiniteSets, TLC

VARIABLES
    pc,               \* position of process_user_request / run_shell_command_async
    client,           \* self.client: "None" or "LLMClient"
    messages,         \* self.client.messages
    usage,            \* self.client.usage
    events,           \* the events yielded so far, in order
    logs,             \* the conversation files written by save_messages
    save_calls,       \* the conclusions save_messages was called with
    queries,          \* number of calls of LLMClient.query
    response_text,    \* local of process_user_request
    response_object,  \* local of process_user_request
    command,          \* argument of run_shell_command_async
    scripts,          \* temporary script files that exist on disk
    script_filename,  \* local of run_shell_command_async
    process,          \* the child: "none", "running", "exited", "killed"
    sh,               \* locals output, error, additional_error, returncode, path
    command_result,   \* value returned by the last run_shell_command_async
    bg,               \* budget guard driven on its own (SpecBudget)
    reg,              \* a ToolsBase instance under construction (SpecRegistry)
    runs,             \* invocations of run_shell_command_async side by side (SpecRunners)
    convs,            \* conversations side by side (SpecConversations)
    fmt,              \* format_command_result applied to a result (SpecFormat)
    live,             \* the loop reduced to its control and its cost (SpecLive)
    cli               \* cli_main consuming the events of a conversation (SpecCli)

vars == <<pc, client, messages, usage, events, logs, save_calls, queries,
          response_text, response_object, command, scripts, script_filename,
          process, sh, command_result, bg, reg, runs, convs, fmt, live, cli>>

(***************************************************************************)
(* Bounds                                                                  *)
(***************************************************************************)
MaxQueries == 2
MaxAdds == 3
MaxInvocations == 2
MaxConversations == 2
MaxTurns == 2
MaxClock == 2
MaxIterations == 2

(***************************************************************************)
(* Program constants (shellcontrol.py:27-37), in units of 10^-7 USD        *)
(***************************************************************************)
INPUT_COST_PER_MILLION == 4
OUTPUT_COST_PER_MILLION == 4
ABORT_ON_TOTAL_COST == 5000000
COMMAND_TIMEOUT_SECONDS == 120

NoneVal == "None"
Unbound == "<unbound>"
SIGKILLED == 0 - 9
\* returncode of a child ended by SIGHUP (asyncio reports -signal number)
SIGHUPPED == 0 - 1

\* Token counts (prompt, completion) a model query may report.
UsageChoices == { <<1000, 100>>, <<625000, 625000>>, <<1250000, 1000>> }

(***************************************************************************)
(* JSON values: json.loads of the reply texts the model may send           *)
(***************************************************************************)
Params(kind, command_kind, cmd, filename, content, summary) ==
    [kind |-> kind, command_kind |-> command_kind, command |-> cmd,
     filename |-> filename, content |-> content, summary |-> summary]

NoParams == Params("absent", "absent", "", NoneVal, NoneVal, NoneVal)
NullParams == Params("null", "absent", "", NoneVal, NoneVal, NoneVal)
StrParams == Params("string", "absent", "", NoneVal, NoneVal, NoneVal)
EmptyParams == Params("object", "absent", "", NoneVal, NoneVal, NoneVal)

Tool(kind, empty, name, parameters) ==
    [kind |-> kind, empty |-> empty, name |-> name, parameters |-> parameters]

NoTool == Tool("absent", TRUE, NoneVal, NoParams)

Json(kind, empty, tool) == [kind |-> kind, empty |-> empty, tool_to_use |-> tool]

JsonDecodeError == Json("JSONDecodeError", TRUE, NoTool)

ToolCall(name, parameters) == Json("object", FALSE, Tool("object", FALSE, name, parameters))

\* text of the reply |-> what json.loads makes of it
ReplyTable ==
    { <<"not json", JsonDecodeError>>,
      <<"~~~json\n{\"tool_to_use\": {\"name\": \"task_complete\", \"parameters\": {\"summary\": \"done\"}}}\n~~~",
        JsonDecodeError>>,
      <<"{}", Json("object", TRUE, NoTool)>>,
      <<"null", Json("null", TRUE, NoTool)>>,
      <<"[1]", Json("array", FALSE, NoTool)>>,
      <<"7", Json("number", FALSE, NoTool)>>,
      <<"{\"foo\": 1}", Json("object", FALSE, NoTool)>>,
      <<"{\"tool_to_use\": {}}",
        Json("object", FALSE, Tool("object", TRUE, NoneVal, NoParams))>>,
      <<"{\"tool_to_use\": \"ls\"}",
        Json("object", FALSE, Tool("string", FALSE, NoneVal, NoParams))>>,
      <<"{\"tool_to_use\": {\"parameters\": {}}}", ToolCall(NoneVal, EmptyParams)>>,
      <<"{\"tool_to_use\": {\"name\": \"fetch_webpage\", \"parameters\": {\"url\": \"u\"}}}",
        ToolCall("fetch_webpage", EmptyParams)>>,
      <<"{\"tool_to_use\": {\"name\": \"task_complete\", \"parameters\": {\"summary\": \"done\"}}}",
        ToolCall("task_complete", Params("object", "absent", "", NoneVal, NoneVal, "done"))>>,
      <<"{\"tool_to_use\": {\"name\": \"task_complete\"}}", ToolCall("task_complete", NoParams)>>,
      <<"{\"tool_to_use\": {\"name\": \"task_complete\", \"parameters\": \"x\"}}",
        ToolCall("task_complete", StrParams)>>,
      <<"{\"tool_to_use\": {\"name\": \"execute_shell_command\", \"parameters\": {\"command\": \"ls /tmp\"}}}",
        ToolCall("execute_shell_command", Params("object", "string", "ls /tmp", NoneVal, NoneVal, NoneVal))>>,
      <<"{\"tool_to_use\": {\"name\": \"execute_shell_command\", \"parameters\": {}}}",
        ToolCall("execute_shell_command", EmptyParams)>>,
      <<"{\"tool_to_use\": {\"name\": \"execute_shell_command\", \"parameters\": {\"command\": 5}}}",
        ToolCall("execute_shell_command", Params("object", "number", "5", NoneVal, NoneVal, NoneVal))>>,
      <<"{\"tool_to_use\": {\"name\": \"read_file\", \"parameters\": {\"filename\": \"/etc/hosts\"}}}",
        ToolCall("read_file", Params("object", "absent", "", "/etc/hosts", NoneVal, NoneVal))>>,
      <<"{\"tool_to_use\": {\"name\": \"read_file\"}}", ToolCall("read_file", NoParams)>>,
      <<"{\"tool_to_use\": {\"name\": \"read_file\", \"parameters\": null}}",
        ToolCall("read_file", NullParams)>>,
      <<"{\"tool_to_use\": {\"name\": \"write_file\", \"parameters\": {\"filename\": \"/tmp/a\", \"content\": \"x\"}}}",
        ToolCall("write_file", Params("object", "absent", "", "/tmp/a", "x", NoneVal))>> }

Replies == { p[1] : p \in ReplyTable }

JsonLoads(text) == (CHOOSE p \in ReplyTable : p[1] = text)[2]

\* Python truthiness of a JSON value / of the tool_to_use value
Truthy(j) == j.kind \notin {"JSONDecodeError", "null"} /\ ~j.empty

\* str(ex) of the AttributeError raised by <value>.get(...) on a value that is not a dict
AttributeError(kind) ==
    CASE kind = "array" -> "'list' object has no attribute 'get'"
      [] kind = "number" -> "'int' object has no attribute 'get'"
      [] kind = "string" -> "'str' object has no attribute 'get'"
      [] OTHER -> "'NoneType' object has no attribute 'get'"

(***************************************************************************)
(* Events, messages, usage                                                 *)
(***************************************************************************)
NoObject == Json("absent", TRUE, NoTool)
NoResult == [output |-> NoneVal, error |-> NoneVal, additional_error |-> <<>>, returncode |-> 0]

\* payloads: a text (its pieces), a parsed reply, or a command result
TextPayload(pieces) == [kind |-> "text", text |-> pieces, object |-> NoObject, result |-> NoResult]
ObjectPayload(obj) == [kind |-> "object", text |-> <<>>, object |-> obj, result |-> NoResult]
ResultPayload(res) == [kind |-> "result", text |-> <<>>, object |-> NoObject, result |-> res]

event(event_type, payload) == [type |-> event_type, payload |-> payload]

\* the list replaced by the new message instead of extended
append_message_replace(msgs, role, content) == <<[role |-> role, content |-> content]>>

\* LLMClient.append_message (lines 69-70)
append_message(msgs, role, content) == Append(msgs, [role |-> role, content |-> content])

reset_usage ==
    [prompt_tokens |-> 0, completion_tokens |-> 0,
     prompt_cost |-> 0, completion_cost |-> 0, total_cost |-> 0]

\* the counters set to the tokens of the last query instead of increased
update_usage_stats_overwrite(u, add_prompt_tokens, add_completion_tokens) ==
    LET pt == add_prompt_tokens
        ct == add_completion_tokens
        pcost == pt * INPUT_COST_PER_MILLION
        ccost == ct * OUTPUT_COST_PER_MILLION
    IN  [prompt_tokens |-> pt, completion_tokens |-> ct,
         prompt_cost |-> pcost, completion_cost |-> ccost,
         total_cost |-> pcost + ccost]

update_usage_stats(u, add_prompt_tokens, add_completion_tokens) ==
    LET pt == u.prompt_tokens + add_prompt_tokens
        ct == u.completion_tokens + add_completion_tokens
        pcost == pt * INPUT_COST_PER_MILLION
        ccost == ct * OUTPUT_COST_PER_MILLION
    IN  [prompt_tokens |-> pt, completion_tokens |-> ct,
         prompt_cost |-> pcost, completion_cost |-> ccost,
         total_cost |-> pcost + ccost]

get_total_cost(u) == u.total_cost

\* the test of line 309 with >= for >
cost_exceeded_ge(ceiling, total_cost) == ceiling > 0 /\ total_cost >= ceiling

\* the test of line 309 with the sign of the ceiling guard turned
cost_exceeded_guard(ceiling, total_cost) == ceiling < 0 /\ total_cost > ceiling

\* the test of shellcontrol.py:309, for a ceiling
cost_exceeded(ceiling, total_cost) == ceiling > 0 /\ total_cost > ceiling

SYSTEM_PROMPT == <<"agent-system-prompt.md">>
USER_PROMPT == <<"list files in /tmp">>

\* Python falsiness of a str-or-None value
Falsy(s) == s \in {"", NoneVal}

TIMEOUT_ERROR ==
    "Error: The command execution exceeded the timeout of 120 seconds and was killed."

UNBOUND_ERROR ==
    "cannot access local variable 'error' where it is not associated with a value"

\* re.sub(r'^/tmp/[^:]+\.sh: line \d+: ', 'bash: ', error) on the stderr texts of ExitChoices
clean_error(error) ==
    IF error = "/tmp/tmpk3x9.sh: line 2: foo: command not found"
    THEN "bash: foo: command not found"
    ELSE error

\* the Errors section written whatever the exit code is
format_command_result_errors(r) ==
    LET output_described ==
            IF ~Falsy(r.output) THEN r.output ELSE "(The command produced no output)"
        error_described0 ==
            IF ~Falsy(r.error) THEN r.error ELSE "(The command produced no error output)"
        error_described ==
            IF r.additional_error # <<>>
            THEN <<error_described0, "\n">> \o r.additional_error
            ELSE <<error_described0>>
        output_section == <<"Output of the command:\n~~~\n", output_described, "\n~~~\n">>
        error_section == <<"Errors:\n~~~\n">> \o error_described \o <<"\n~~~\n">>
        exit_section == <<"Exit status: ", ToString(r.returncode)>>
    IN  output_section \o error_section \o exit_section

\* ShellAgent.format_command_result (lines 202-221); ~~~ stands for the code fence
format_command_result(r) ==
    LET output_described ==
            IF ~Falsy(r.output) THEN r.output ELSE "(The command produced no output)"
        error_described0 ==
            IF ~Falsy(r.error) THEN r.error ELSE "(The command produced no error output)"
        error_described ==
            IF r.additional_error # <<>>
            THEN <<error_described0, "\n">> \o r.additional_error
            ELSE <<error_described0>>
        output_section == <<"Output of the command:\n~~~\n", output_described, "\n~~~\n">>
        error_section ==
            IF r.returncode = 0 THEN <<>>
            ELSE <<"Errors:\n~~~\n">> \o error_described \o <<"\n~~~\n">>
        exit_section == <<"Exit status: ", ToString(r.returncode)>>
    IN  output_section \o error_section \o exit_section

\* parse_response handing back the text itself when it does not parse
parse_response_raw(text) ==
    LET j == JsonLoads(text)
    IN  IF j.kind = "JSONDecodeError" THEN Json("string", FALSE, NoTool) ELSE j

parse_response(text) ==
    LET j == JsonLoads(text) IN IF j.kind = "JSONDecodeError" THEN NoObject ELSE j

\* None (NoObject) and the JSON values Python holds false
ObjectTruthy(obj) == obj.kind # "absent" /\ Truthy(obj)

ToolTruthy(t) == t.kind \notin {"absent", "null"} /\ ~t.empty

KnownTools == {"execute_shell_command", "read_file", "write_file"}

(***************************************************************************)
(* What the environment may do                                             *)
(***************************************************************************)
\* (returncode, stdout, stderr) of a child that exits before the timeout
ExitChoices ==
    { <<0, "file1\nfile2\n", "">>,
      <<0, "", "">>,
      <<127, "", "/tmp/tmpk3x9.sh: line 2: foo: command not found\n">>,
      <<SIGHUPPED, "", "">> }

\* bytes.decode().strip() on the outputs of ExitChoices
decode_strip(bytes) ==
    CASE bytes = "file1\nfile2\n" -> "file1\nfile2"
      [] bytes = "/tmp/tmpk3x9.sh: line 2: foo: command not found\n" ->
             "/tmp/tmpk3x9.sh: line 2: foo: command not found"
      [] OTHER -> bytes

\* str(ex) of the failures the environment can raise
CLIENT_ERROR == "[Errno 2] No such file or directory: 'agent-system-prompt.md'"
QUERY_ERROR == "Connection error."
SAVE_ERROR == "[Errno 13] Permission denied: 'logs'"
TEMPFILE_ERROR == "[Errno 28] No space left on device"
ENCODE_ERROR == "'int' object has no attribute 'encode'"
SPAWN_ERROR == "[Errno 2] No such file or directory: 'bash'"
DECODE_ERROR == "'utf-8' codec can't decode byte 0xff in position 0: invalid start byte"
REMOVE_ERROR == "[Errno 13] Permission denied: '/tmp/tmpk3x9.sh'"

NoLocals ==
    [output |-> Unbound, error |-> Unbound, additional_error |-> <<>>,
     stdout |-> Unbound, stderr |-> Unbound, exc |-> NoneVal]

NoCommand == [kind |-> "absent", text |-> ""]

NoProcess == [state |-> "none", returncode |-> 0]

BgIdle == [ceiling |-> ABORT_ON_TOTAL_COST, usage |-> reset_usage, adds |-> <<>>,
           checked |-> FALSE, result |-> FALSE]

\* ToolsBase.__init__: self.toolset = {} before fill_toolset (tools_base.py:15-18)
RegIdle == [attrs |-> <<>>, i |-> 1, toolset |-> {}, error |-> <<>>]

\* no invocation of the runner, no script file
RunsIdle == [variant |-> "agent", created |-> 0, files |-> {}, inv |-> <<>>]

\* no conversation
ConvsIdle == [clients |-> <<>>, logs |-> {}, now |-> 1]

\* format_command_result not applied
FmtIdle == [input |-> NoResult, applied |-> FALSE, text |-> <<>>]

\* the loop before process_user_request
LiveIdle == [pc |-> "start", total_cost |-> 0, response_text |-> NoneVal]

\* cli_main before the async for
CliIdle == [stream |-> <<>>, next |-> 1, printed |-> <<>>, status |-> "consuming"]

LoopInit ==
    /\ pc = "start"
    /\ client = "None"
    /\ messages = <<>>
    /\ usage = reset_usage
    /\ events = <<>>
    /\ logs = <<>>
    /\ save_calls = <<>>
    /\ queries = 0
    /\ response_text = NoneVal
    /\ response_object = NoObject
    /\ command = NoCommand
    /\ scripts = {}
    /\ script_filename = 0
    /\ process = NoProcess
    /\ sh = NoLocals
    /\ command_result = NoResult

Init ==
    /\ LoopInit
    /\ bg = BgIdle
    /\ reg = RegIdle
    /\ runs = RunsIdle
    /\ convs = ConvsIdle
    /\ fmt = FmtIdle
    /\ live = LiveIdle
    /\ cli = CliIdle

loop_locals == <<response_text, response_object>>
shell_vars == <<command, scripts, script_filename, process, sh, command_result>>
log_vars == <<logs, save_calls>>

(***************************************************************************)
(* process_user_request                                                    *)
(***************************************************************************)
\* the except clause swallowing the exception without an event
raise_silent(evs, text) == evs

\* the except clause yielding a fixed text instead of str(ex)
raise_generic(evs, text) == Append(evs, event("ABORT", TextPayload(<<"Internal error">>)))

\* except Exception as ex: yield ABORT (shellcontrol.py:315-317, DEBUG off)
raise(evs, text) == Append(evs, event("ABORT", TextPayload(<<text>>)))

\* LLMClient.save_messages: the record written, or an OSError
log_record(conclusion) ==
    [conclusion |-> conclusion, user_prompt |-> USER_PROMPT,
     messages |-> messages, usage |-> usage]

saved_info(n) == event("INFO", TextPayload(<<"Conversation saved to: ", "logs/conversation_", ToString(n), ".json">>))

\* lines 241-248: build the client, seed the transcript
Start ==
    /\ pc = "start"
    /\ \/ /\ client' = "LLMClient"
          /\ usage' = reset_usage
          /\ messages' = append_message(append_message(<<>>, "system", SYSTEM_PROMPT),
                                        "user", USER_PROMPT)
          /\ pc' = "query"
          /\ UNCHANGED events
       \/ /\ events' = raise(events, CLIENT_ERROR)
          /\ pc' = "done"
          /\ UNCHANGED <<client, usage, messages>>
    /\ UNCHANGED <<log_vars, queries, loop_locals, shell_vars, bg, reg, runs, convs, fmt, live, cli>>

\* lines 251-259: query the model, parse the reply
Query ==
    /\ pc = "query"
    /\ queries < MaxQueries
    /\ queries' = queries + 1
    /\ \/ \E u \in UsageChoices, text \in Replies :
            LET obj == parse_response(text) IN
            /\ usage' = update_usage_stats(usage, u[1], u[2])
            /\ response_text' = text
            /\ response_object' = obj
            /\ IF ObjectTruthy(obj)
               THEN /\ events' = Append(events, event("AI_RESPONSE", ObjectPayload(obj)))
                    /\ pc' = "dispatch"
               ELSE /\ events' = events \o
                          << event("AI_RESPONSE", TextPayload(<<text>>)),
                             event("WARN", TextPayload(<<"Invalid JSON data provided. Trying again.">>)) >>
                    /\ pc' = "query"
       \/ /\ events' = raise(events, QUERY_ERROR)
          /\ pc' = "done"
          /\ UNCHANGED <<usage, loop_locals>>
    /\ UNCHANGED <<client, messages, log_vars, shell_vars, bg, reg, runs, convs, fmt, live, cli>>

\* line 261 on a reply that is not a dict: get_tool_call raises
DispatchNotDict ==
    /\ pc = "dispatch"
    /\ response_object.kind # "object"
    /\ events' = raise(events, AttributeError(response_object.kind))
    /\ pc' = "done"
    /\ UNCHANGED <<client, messages, usage, log_vars, queries, loop_locals, shell_vars, bg, reg, runs, convs, fmt, live, cli>>

\* line 267 moved before the test of line 262: the reply is appended first
DispatchNoTool_appended ==
    /\ pc = "dispatch"
    /\ response_object.kind = "object"
    /\ ~ToolTruthy(response_object.tool_to_use)
    /\ messages' = append_message(messages, "assistant", <<response_text>>)
    /\ events' = Append(events, event("ABORT", TextPayload(<<"No tool selection provided. Exiting.">>)))
    /\ pc' = "done"
    /\ UNCHANGED <<client, usage, log_vars, queries, loop_locals, shell_vars, bg, reg, runs, convs, fmt, live, cli>>

\* lines 261-264: no tool selection
DispatchNoTool ==
    /\ pc = "dispatch"
    /\ response_object.kind = "object"
    /\ ~ToolTruthy(response_object.tool_to_use)
    /\ events' = Append(events, event("ABORT", TextPayload(<<"No tool selection provided. Exiting.">>)))
    /\ pc' = "done"
    /\ UNCHANGED <<client, messages, usage, log_vars, queries, loop_locals, shell_vars, bg, reg, runs, convs, fmt, live, cli>>

\* the guard of lines 267-271: a selection was made
Selected ==
    /\ pc = "dispatch"
    /\ response_object.kind = "object"
    /\ ToolTruthy(response_object.tool_to_use)

tool_call == response_object.tool_to_use
tool_name == tool_call.name
\* tool_call.get("parameters", {})
parameters == IF tool_call.parameters.kind = "absent" THEN EmptyParams ELSE tool_call.parameters

\* lines 267-270 on a selection that is not a dict: tool_call.get raises
DispatchBadTool ==
    /\ Selected
    /\ tool_call.kind # "object"
    /\ messages' = append_message(messages, "assistant", <<response_text>>)
    /\ events' = raise(events, AttributeError(tool_call.kind))
    /\ pc' = "done"
    /\ UNCHANGED <<client, usage, log_vars, queries, loop_locals, shell_vars, bg, reg, runs, convs, fmt, live, cli>>

\* the handlers read parameters with .get: a value that is not a dict raises
BadParameters ==
    /\ messages' = append_message(messages, "assistant", <<response_text>>)
    /\ events' = raise(events, AttributeError(parameters.kind))
    /\ pc' = "done"
    /\ UNCHANGED <<client, usage, log_vars, queries, loop_locals, shell_vars, bg, reg, runs, convs, fmt, live, cli>>

\* a failed action ending the conversation
ToolEvent_abort(event_type, pieces) ==
    /\ messages' = append_message(append_message(messages, "assistant", <<response_text>>),
                                  "user", pieces)
    /\ events' = IF event_type = "TOOL_ERROR"
                 THEN events \o << event(event_type, TextPayload(pieces)),
                                   event("ABORT", TextPayload(pieces)) >>
                 ELSE Append(events, event(event_type, TextPayload(pieces)))
    /\ pc' = IF event_type = "TOOL_ERROR" THEN "done" ELSE "costcheck"
    /\ UNCHANGED <<client, usage, log_vars, queries, loop_locals, shell_vars, bg, reg, runs, convs, fmt, live, cli>>

\* the tool event yielded a second time
ToolEvent_twice(event_type, pieces) ==
    /\ messages' = append_message(append_message(messages, "assistant", <<response_text>>),
                                  "user", pieces)
    /\ events' = events \o << event(event_type, TextPayload(pieces)),
                              event(event_type, TextPayload(pieces)) >>
    /\ pc' = "costcheck"
    /\ UNCHANGED <<client, usage, log_vars, queries, loop_locals, shell_vars, bg, reg, runs, convs, fmt, live, cli>>

\* lines 273-283 with a tool event that is not a shell run: append the payload, yield
ToolEvent(event_type, pieces) ==
    /\ messages' = append_message(append_message(messages, "assistant", <<response_text>>),
                                  "user", pieces)
    /\ events' = Append(events, event(event_type, TextPayload(pieces)))
    /\ pc' = "costcheck"
    /\ UNCHANGED <<client, usage, log_vars, queries, loop_locals, shell_vars, bg, reg, runs, convs, fmt, live, cli>>

\* lines 274-275, 319-324: handle_execute_shell_command up to the call of the runner
ExecuteShellCommand ==
    /\ Selected
    /\ tool_call.kind = "object"
    /\ tool_name = "execute_shell_command"
    /\ IF parameters.kind # "object" THEN BadParameters
       ELSE IF parameters.command_kind = "absent" \/ Falsy(parameters.command)
       THEN ToolEvent("TOOL_ERROR", <<"Missing command parameter for execute_shell_command">>)
       ELSE /\ messages' = append_message(messages, "assistant", <<response_text>>)
            /\ command' = [kind |-> parameters.command_kind, text |-> parameters.command]
            /\ pc' = "sh_create"
            /\ UNCHANGED <<client, usage, events, log_vars, queries, loop_locals,
                           scripts, script_filename, process, sh, command_result, bg, reg, runs, convs, fmt, live, cli>>

\* lines 285-288, 327-337
ReadFile ==
    /\ Selected
    /\ tool_call.kind = "object"
    /\ tool_name = "read_file"
    /\ IF parameters.kind # "object" THEN BadParameters
       ELSE IF Falsy(parameters.filename)
       THEN ToolEvent("TOOL_ERROR", <<"Missing filename parameter for read_file">>)
       ELSE \/ ToolEvent("TOOL_SUCCESS",
                         <<"Successfully read ", parameters.filename, ":\n", "127.0.0.1 localhost">>)
            \/ ToolEvent("TOOL_ERROR",
                         <<"Read error: ", "[Errno 2] No such file or directory: ", parameters.filename>>)

\* lines 290-293, 339-354
WriteFile ==
    /\ Selected
    /\ tool_call.kind = "object"
    /\ tool_name = "write_file"
    /\ IF parameters.kind # "object" THEN BadParameters
       ELSE IF Falsy(parameters.filename)
       THEN ToolEvent("TOOL_ERROR", <<"Missing filename parameter for write_file">>)
       ELSE \/ ToolEvent("TOOL_SUCCESS", <<"Successfully wrote to ", parameters.filename>>)
            \/ ToolEvent("TOOL_ERROR",
                         <<"Write error: ", "[Errno 13] Permission denied: ", parameters.filename>>)

\* the save and the closing event without the break: the loop goes on
SaveAndClose_continue(msgs, conclusion, closing) ==
    /\ messages' = msgs
    /\ save_calls' = Append(save_calls, conclusion)
    /\ logs' = Append(logs, [log_record(conclusion) EXCEPT !.messages = msgs])
    /\ events' = events \o << saved_info(Len(logs) + 1), closing >>
    /\ pc' = IF queries < MaxQueries THEN "query" ELSE "done"
    /\ UNCHANGED <<client, usage, queries, loop_locals, shell_vars, bg, reg, runs, convs, fmt, live, cli>>

\* save_messages(conclusion) then INFO then the closing event; an OSError of
\* save_messages reaches the except clause of line 315
SaveAndClose(msgs, conclusion, closing) ==
    /\ messages' = msgs
    /\ save_calls' = Append(save_calls, conclusion)
    /\ \/ /\ logs' = Append(logs, [log_record(conclusion) EXCEPT !.messages = msgs])
          /\ events' = events \o << saved_info(Len(logs) + 1), closing >>
       \/ /\ logs' = logs
          /\ events' = raise(events, SAVE_ERROR)
    /\ pc' = "done"
    /\ UNCHANGED <<client, usage, queries, loop_locals, shell_vars, bg, reg, runs, convs, fmt, live, cli>>

\* lines 295-300
TaskComplete ==
    /\ Selected
    /\ tool_call.kind = "object"
    /\ tool_name = "task_complete"
    /\ IF parameters.kind # "object" THEN BadParameters
       ELSE LET summary == IF parameters.summary = NoneVal THEN "" ELSE parameters.summary
            IN  SaveAndClose(append_message(messages, "assistant", <<response_text>>),
                             "completed", event("COMPLETED", TextPayload(<<summary>>)))

\* lines 302-306
UnknownTool ==
    /\ Selected
    /\ tool_call.kind = "object"
    /\ tool_name \notin KnownTools \cup {"task_complete"}
    /\ SaveAndClose(append_message(messages, "assistant", <<response_text>>),
                    "failed",
                    event("ABORT", TextPayload(<<"Unknown tool selected: ", tool_name, ". Exiting.">>)))

\* the abort of lines 310-313 taken without the test of line 309
CostCheck_always ==
    /\ pc = "costcheck"
    /\ SaveAndClose(messages, "aborted_due_cost",
            event("ABORT", TextPayload(<<"Total cost is exceeding the limit ($", "0.5", "). Exiting.">>)))

\* lines 308-313
CostCheck ==
    /\ pc = "costcheck"
    /\ IF cost_exceeded(ABORT_ON_TOTAL_COST, get_total_cost(usage))
       THEN SaveAndClose(messages, "aborted_due_cost",
                event("ABORT", TextPayload(<<"Total cost is exceeding the limit ($", "0.5", "). Exiting.">>)))
       ELSE /\ pc' = "query"
            /\ UNCHANGED <<client, messages, usage, events, log_vars, queries,
                           loop_locals, shell_vars, bg, reg, runs, convs, fmt, live, cli>>

(***************************************************************************)
(* run_shell_command_async (shellcontrol.py:149-200)                       *)
(***************************************************************************)
\* tempfile.NamedTemporaryFile picks a name that does not exist yet
FreshScript == CHOOSE n \in 1..(Cardinality(scripts) + 1) : n \notin scripts

\* lines 151-158: create the script file and write the command
ShCreate ==
    /\ pc = "sh_create"
    /\ process' = NoProcess
    /\ \/ /\ sh' = [NoLocals EXCEPT !.exc = TEMPFILE_ERROR]
          /\ pc' = "sh_return"
          /\ UNCHANGED <<scripts, script_filename>>
       \/ /\ scripts' = scripts \cup {FreshScript}
          /\ script_filename' = FreshScript
          /\ IF command.kind = "string"
             THEN /\ sh' = NoLocals
                  /\ pc' = "sh_spawn"
             ELSE /\ sh' = [NoLocals EXCEPT !.exc = ENCODE_ERROR]
                  /\ pc' = "sh_return"
    /\ UNCHANGED <<client, messages, usage, events, log_vars, queries, loop_locals,
                   command, command_result, bg, reg, runs, convs, fmt, live, cli>>

\* lines 161-165: asyncio.create_subprocess_exec
ShSpawn ==
    /\ pc = "sh_spawn"
    /\ \/ /\ process' = [state |-> "running", returncode |-> 0]
          /\ pc' = "sh_wait"
          /\ UNCHANGED sh
       \/ /\ sh' = [sh EXCEPT !.exc = SPAWN_ERROR]
          /\ pc' = "sh_return"
          /\ UNCHANGED process
    /\ UNCHANGED <<client, messages, usage, events, log_vars, queries, loop_locals,
                   command, scripts, script_filename, command_result, bg, reg, runs, convs, fmt, live, cli>>

\* line 174: process.kill() sends SIGKILL; the child is not reaped yet
kill(p) == [state |-> "signalled", returncode |-> NoneVal]

\* the kill without the wait: the runner goes on while the child is unreaped
wait_skipped(p) == p

\* line 175: await process.wait() returns once the child has been reaped
wait(p) ==
    IF p.state = "signalled" THEN [state |-> "killed", returncode |-> SIGKILLED]
    ELSE [state |-> "exited", returncode |-> 0]

\* lines 167-177: wait for the child, with the timeout
ShWait ==
    /\ pc = "sh_wait"
    /\ \/ \E x \in ExitChoices :
            /\ process' = [state |-> "exited", returncode |-> x[1]]
            /\ sh' = [sh EXCEPT !.stdout = x[2], !.stderr = x[3],
                                !.output = decode_strip(x[2]), !.error = decode_strip(x[3])]
       \/ /\ process' = [state |-> "exited", returncode |-> 0]
          /\ sh' = [sh EXCEPT !.stdout = "\\xff", !.stderr = "", !.exc = DECODE_ERROR]
       \/ /\ process' = wait(kill(process))
          /\ sh' = [sh EXCEPT !.additional_error = <<TIMEOUT_ERROR>>,
                              !.stdout = "", !.stderr = ""]
    /\ pc' = "sh_finally"
    /\ UNCHANGED <<client, messages, usage, events, log_vars, queries, loop_locals,
                   command, scripts, script_filename, command_result, bg, reg, runs, convs, fmt, live, cli>>

\* lines 178-181: the finally clause deletes the script
ShFinally ==
    /\ pc = "sh_finally"
    /\ \/ /\ scripts' = scripts \ {script_filename}
          /\ UNCHANGED sh
       \/ /\ sh' = [sh EXCEPT !.exc = REMOVE_ERROR]
          /\ UNCHANGED scripts
    /\ pc' = "sh_return"
    /\ UNCHANGED <<client, messages, usage, events, log_vars, queries, loop_locals,
                   command, script_filename, process, command_result, bg, reg, runs, convs, fmt, live, cli>>

\* lines 194-200
unexpected_error(text) ==
    [output |-> "", error |-> "", additional_error |-> <<"Unexpected error: ", text>>,
     returncode |-> 0 - 1]

\* lines 183-200: the value run_shell_command_async returns
shell_result ==
    IF sh.exc # NoneVal THEN unexpected_error(sh.exc)
    ELSE IF sh.error = Unbound THEN unexpected_error(UNBOUND_ERROR)
    ELSE [output |-> sh.output,
          error |-> IF ~Falsy(sh.error) THEN clean_error(sh.error) ELSE sh.error,
          additional_error |-> sh.additional_error,
          returncode |-> process.returncode]

\* the result yielded without line 277: no user turn for the model
ShReturn_unappended ==
    /\ pc = "sh_return"
    /\ command_result' = shell_result
    /\ events' = Append(events, event("TOOL_SUCCESS", ResultPayload(shell_result)))
    /\ pc' = "costcheck"
    /\ UNCHANGED <<client, messages, usage, log_vars, queries, loop_locals,
                   command, scripts, script_filename, process, sh, bg, reg, runs, convs, fmt, live, cli>>

\* the formatted text handed to the observers as well
ShReturn_formatted ==
    /\ pc = "sh_return"
    /\ command_result' = shell_result
    /\ messages' = append_message(messages, "user", format_command_result(shell_result))
    /\ events' = Append(events, event("TOOL_SUCCESS",
                                      TextPayload(format_command_result(shell_result))))
    /\ pc' = "costcheck"
    /\ UNCHANGED <<client, usage, log_vars, queries, loop_locals,
                   command, scripts, script_filename, process, sh, bg, reg, runs, convs, fmt, live, cli>>

\* lines 183-200, then 325 and 276-280: return, format, append, yield
ShReturn ==
    /\ pc = "sh_return"
    /\ command_result' = shell_result
    /\ messages' = append_message(messages, "user", format_command_result(shell_result))
    /\ events' = Append(events, event("TOOL_SUCCESS", ResultPayload(shell_result)))
    /\ pc' = "costcheck"
    /\ UNCHANGED <<client, usage, log_vars, queries, loop_locals,
                   command, scripts, script_filename, process, sh, bg, reg, runs, convs, fmt, live, cli>>

Next ==
    \/ Start
    \/ Query
    \/ DispatchNotDict
    \/ DispatchNoTool
    \/ DispatchBadTool
    \/ ExecuteShellCommand
    \/ ReadFile
    \/ WriteFile
    \/ TaskComplete
    \/ UnknownTool
    \/ ShCreate
    \/ ShSpawn
    \/ ShWait
    \/ ShFinally
    \/ ShReturn
    \/ CostCheck

Spec == Init /\ [][Next]_vars

(***************************************************************************)
(* The budget guard on its own: update_usage_stats and the test of line    *)
(* 309 for any ceiling and any sequence of usage additions                 *)
(***************************************************************************)
Ceilings == { 0 - 5000000, 0, 1, ABORT_ON_TOTAL_COST }

BgUsageChoices == UsageChoices \cup { <<0, 0>> }

loop_vars == <<pc, client, messages, usage, events, logs, save_calls, queries,
               response_text, response_object, command, scripts, script_filename,
               process, sh, command_result>>

InitBudget ==
    /\ LoopInit
    /\ bg \in { [BgIdle EXCEPT !.ceiling = c] : c \in Ceilings }
    /\ reg = RegIdle
    /\ runs = RunsIdle
    /\ convs = ConvsIdle
    /\ fmt = FmtIdle
    /\ live = LiveIdle
    /\ cli = CliIdle

BgAdd ==
    /\ Len(bg.adds) < MaxAdds
    /\ \E u \in BgUsageChoices :
          bg' = [bg EXCEPT !.usage = update_usage_stats(bg.usage, u[1], u[2]),
                           !.adds = Append(bg.adds, u),
                           !.checked = FALSE]
    /\ UNCHANGED <<loop_vars, reg, runs, convs, fmt, live, cli>>

BgCheck ==
    /\ ~bg.checked
    /\ bg' = [bg EXCEPT !.checked = TRUE,
                        !.result = cost_exceeded(bg.ceiling, get_total_cost(bg.usage))]
    /\ UNCHANGED <<loop_vars, reg, runs, convs, fmt, live, cli>>

NextBudget == BgAdd \/ BgCheck

SpecBudget == InitBudget /\ [][NextBudget]_vars

(***************************************************************************)
(* The capability registry on its own: ToolsBase.fill_toolset over the     *)
(* attributes of any class derived from ToolsBase                          *)
(***************************************************************************)
Attr(attr, is_tool, name, formatter, doc) ==
    [attr |-> attr, callable |-> TRUE, is_tool |-> is_tool, tool_name |-> name,
     formatter_function |-> formatter, docstring |-> doc]

\* attributes a subclass may have, in the order of dir(self) (sorted by name):
\* those of AgentTools, a second method registered as read_file, a data
\* attribute, and a tool without a docstring
AttrPool ==
    << Attr("develop_code", TRUE, "develop_code", "format_shell_command_result", "doc"),
       Attr("execute_shell_command", TRUE, "execute_shell_command",
            "format_shell_command_result", "doc"),
       Attr("fetch_webpage", TRUE, "fetch_webpage", NoneVal, "doc"),
       Attr("format_shell_command_result", FALSE, NoneVal, NoneVal, "doc"),
       Attr("read_file", TRUE, "read_file", NoneVal, "doc"),
       Attr("read_file_v2", TRUE, "read_file", NoneVal, "doc v2"),
       [Attr("settings", FALSE, NoneVal, NoneVal, NoneVal) EXCEPT !.callable = FALSE],
       Attr("write_file", TRUE, "write_file", NoneVal, "doc"),
       Attr("write_file_undocumented", TRUE, "write_file_undocumented", NoneVal, "") >>

RECURSIVE Pick(_, _)
Pick(i, S) ==
    IF i > Len(AttrPool) THEN <<>>
    ELSE (IF i \in S THEN <<AttrPool[i]>> ELSE <<>>) \o Pick(i + 1, S)

\* dir(self) of the classes considered
Classes == { Pick(1, S) : S \in SUBSET (1..Len(AttrPool)) }

InitRegistry ==
    /\ LoopInit
    /\ bg = BgIdle
    /\ reg \in { [RegIdle EXCEPT !.attrs = c] : c \in Classes }
    /\ runs = RunsIdle
    /\ convs = ConvsIdle
    /\ fmt = FmtIdle
    /\ live = LiveIdle
    /\ cli = CliIdle

\* for method_name in dir(self): method = getattr(self, method_name, None)
Filling == reg.error = <<>> /\ reg.i <= Len(reg.attrs)
method == reg.attrs[reg.i]

\* line 26: callable(method) and getattr(method, "_is_tool", False)
IsToolMethod(m) == m.callable /\ m.is_tool

\* lines 29-30: getattr(self, name, None) and callable()
formatter_callable(m) ==
    \E j \in 1..Len(reg.attrs) :
        reg.attrs[j].attr = m.formatter_function /\ reg.attrs[j].callable

\* line 42: self.toolset[name] = {...}; a dict assignment replaces the entry of an equal key
dict_set(toolset, name, entry) ==
    { e \in toolset : e.name # name } \cup { [name |-> name, entry |-> entry] }

Keys(toolset) == { e.name : e \in toolset }

\* line 26 false: next attribute
FillSkip ==
    /\ Filling
    /\ ~IsToolMethod(method)
    /\ reg' = [reg EXCEPT !.i = @ + 1]
    /\ UNCHANGED <<loop_vars, bg, runs, convs, fmt, live, cli>>

\* lines 28-34
FillFormatterError ==
    /\ Filling
    /\ IsToolMethod(method)
    /\ method.formatter_function # NoneVal
    /\ ~formatter_callable(method)
    /\ reg' = [reg EXCEPT !.error = <<"Formatter function '", method.formatter_function,
                                     "' for tool '", method.tool_name,
                                     "' is not callable or not defined">>]
    /\ UNCHANGED <<loop_vars, bg, runs, convs, fmt, live, cli>>

\* lines 38-40
FillDocstringError ==
    /\ Filling
    /\ IsToolMethod(method)
    /\ method.formatter_function # NoneVal => formatter_callable(method)
    /\ Falsy(method.docstring)
    /\ reg' = [reg EXCEPT !.error = <<"No docstring found for tool '", method.tool_name, "'">>]
    /\ UNCHANGED <<loop_vars, bg, runs, convs, fmt, live, cli>>

\* lines 42-46
FillStore ==
    /\ Filling
    /\ IsToolMethod(method)
    /\ method.formatter_function # NoneVal => formatter_callable(method)
    /\ ~Falsy(method.docstring)
    /\ reg' = [reg EXCEPT !.i = @ + 1,
                          !.toolset = dict_set(@, method.tool_name,
                                               [function |-> method.attr,
                                                formatter_function |-> method.formatter_function,
                                                docstring |-> method.docstring])]
    /\ UNCHANGED <<loop_vars, bg, runs, convs, fmt, live, cli>>

NextRegistry == FillSkip \/ FillFormatterError \/ FillDocstringError \/ FillStore

SpecRegistry == InitRegistry /\ [][NextRegistry]_vars

(***************************************************************************)
(* Invocations of run_shell_command_async side by side, in the agent       *)
(* backend and in the legacy backend.  Each await is a point where another *)
(* invocation (another websocket connection of the same server) may run.   *)
(***************************************************************************)
RunCommands == {"ls /tmp", "date", "rm -rf build"}

\* legacy backend: script_filename = "command.sh"
COMMAND_SH == 0

\* script_filename is unbound (-1) until the invocation has written its script
Invocation(cmd) ==
    [pc |-> "write", command |-> cmd, script_filename |-> 0 - 1, executed |-> NoneVal]

InitRunners ==
    /\ LoopInit
    /\ bg = BgIdle
    /\ reg = RegIdle
    /\ convs = ConvsIdle
    /\ fmt = FmtIdle
    /\ live = LiveIdle
    /\ cli = CliIdle
    /\ \E v \in {"agent", "legacy"} :
          runs \in { [RunsIdle EXCEPT !.variant = v,
                                       !.inv = [i \in 1..MaxInvocations |-> Invocation(c[i])]] :
                        c \in [1..MaxInvocations -> RunCommands] }

\* open(name, "w") and write: creates the file or replaces its content
write_file(files, name, text) ==
    { f \in files : f.name # name } \cup { [name |-> name, content |-> text] }

\* what bash reads when it opens the script
script_content(files, name) ==
    IF \E f \in files : f.name = name
    THEN (CHOOSE f \in files : f.name = name).content
    ELSE NoneVal

\* tempfile.NamedTemporaryFile(delete=False): a file that did not exist
temp_name(created) == created + 1

\* agent backend, lines 153-158
AgentWrite(i) ==
    /\ runs.variant = "agent"
    /\ runs.inv[i].pc = "write"
    /\ runs' = [runs EXCEPT !.created = @ + 1,
                            !.files = write_file(@, temp_name(runs.created), runs.inv[i].command),
                            !.inv[i].script_filename = temp_name(runs.created),
                            !.inv[i].pc = "spawn"]
    /\ UNCHANGED <<loop_vars, bg, reg, convs, fmt, live, cli>>

\* agent backend, lines 161-165: bash opens the script
AgentSpawn(i) ==
    /\ runs.variant = "agent"
    /\ runs.inv[i].pc = "spawn"
    /\ runs' = [runs EXCEPT !.inv[i].executed =
                                script_content(runs.files, runs.inv[i].script_filename),
                            !.inv[i].pc = "wait"]
    /\ UNCHANGED <<loop_vars, bg, reg, convs, fmt, live, cli>>

\* agent backend, lines 167-181: the child ends and the script is removed
AgentFinish(i) ==
    /\ runs.variant = "agent"
    /\ runs.inv[i].pc = "wait"
    /\ runs' = [runs EXCEPT !.files = { f \in @ : f.name # runs.inv[i].script_filename },
                            !.inv[i].pc = "done"]
    /\ UNCHANGED <<loop_vars, bg, reg, convs, fmt, live, cli>>

\* legacy backend, lines 50-53
LegacyWrite(i) ==
    /\ runs.variant = "legacy"
    /\ runs.inv[i].pc = "write"
    /\ runs' = [runs EXCEPT !.files = write_file(@, COMMAND_SH, runs.inv[i].command),
                            !.inv[i].script_filename = COMMAND_SH,
                            !.inv[i].pc = "spawn"]
    /\ UNCHANGED <<loop_vars, bg, reg, convs, fmt, live, cli>>

\* legacy backend, lines 56-60: bash opens the script
LegacySpawn(i) ==
    /\ runs.variant = "legacy"
    /\ runs.inv[i].pc = "spawn"
    /\ runs' = [runs EXCEPT !.inv[i].executed =
                                script_content(runs.files, runs.inv[i].script_filename),
                            !.inv[i].pc = "wait"]
    /\ UNCHANGED <<loop_vars, bg, reg, convs, fmt, live, cli>>

\* legacy backend, lines 64-83: the child ends; command.sh is left in place
LegacyFinish(i) ==
    /\ runs.variant = "legacy"
    /\ runs.inv[i].pc = "wait"
    /\ runs' = [runs EXCEPT !.inv[i].pc = "done"]
    /\ UNCHANGED <<loop_vars, bg, reg, convs, fmt, live, cli>>

NextRunners ==
    \E i \in 1..MaxInvocations :
        \/ AgentWrite(i)
        \/ AgentSpawn(i)
        \/ AgentFinish(i)
        \/ LegacyWrite(i)
        \/ LegacySpawn(i)
        \/ LegacyFinish(i)

SpecRunners == InitRunners /\ [][NextRunners]_vars

(***************************************************************************)
(* Conversations side by side: one ShellAgent and one LLMClient for each   *)
(* websocket connection (shellcontrol-agent-web.py:31-32), all writing     *)
(* their transcript files to the same log directory                        *)
(***************************************************************************)
ConvPrompts == { <<"list files in /tmp">>, <<"show the date">> }

ConvUsageChoices == { <<1000, 100>>, <<625000, 625000>> }

\* a ShellAgent before process_user_request: self.client = None
NoClient(prompt) ==
    [state |-> "none", prompt |-> prompt, messages |-> <<>>, usage |-> reset_usage,
     queries |-> 0, turns |-> 0]

InitConversations ==
    /\ LoopInit
    /\ bg = BgIdle
    /\ reg = RegIdle
    /\ runs = RunsIdle
    /\ fmt = FmtIdle
    /\ live = LiveIdle
    /\ cli = CliIdle
    /\ convs \in { [clients |-> [c \in 1..MaxConversations |-> NoClient(p[c])],
                    logs |-> {}, now |-> 1] :
                      p \in [1..MaxConversations -> ConvPrompts] }

\* a list shared by all clients (a class attribute) instead of self.messages
client_append_shared(clients, c, role, content) ==
    [d \in DOMAIN clients |->
        [clients[d] EXCEPT !.messages = append_message(@, role, content)]]

\* self.messages.append(...) of the client of conversation c
client_append(clients, c, role, content) ==
    [clients EXCEPT ![c].messages = append_message(@, role, content)]

\* self.update_usage_stats(...) of the client of conversation c
client_usage(clients, c, u) ==
    [clients EXCEPT ![c].usage = update_usage_stats(@, u[1], u[2])]

\* lines 242-248: a new LLMClient with the system prompt, then the task text
ConvStart(c) ==
    /\ convs.clients[c].state = "none"
    /\ LET fresh == [convs.clients EXCEPT ![c].state = "open",
                                          ![c].usage = reset_usage,
                                          ![c].messages = <<>>]
           sys == client_append(fresh, c, "system", SYSTEM_PROMPT)
       IN  convs' = [convs EXCEPT !.clients =
                        client_append(sys, c, "user", convs.clients[c].prompt)]
    /\ UNCHANGED <<loop_vars, bg, reg, runs, fmt, live, cli>>

\* line 251 with lines 64-67: a query adds the tokens of the reply to the usage
ConvQuery(c) ==
    /\ convs.clients[c].state = "open"
    /\ convs.clients[c].queries < MaxTurns
    /\ convs.clients[c].queries = convs.clients[c].turns
    /\ \E u \in ConvUsageChoices :
          convs' = [convs EXCEPT !.clients =
                       [client_usage(@, c, u) EXCEPT ![c].queries = @ + 1]]
    /\ UNCHANGED <<loop_vars, bg, reg, runs, fmt, live, cli>>

\* lines 267 and 276-293: the reply and the result of its action are appended
ConvAppend(c) ==
    /\ convs.clients[c].state = "open"
    /\ convs.clients[c].turns < convs.clients[c].queries
    /\ LET a == client_append(convs.clients, c, "assistant", <<"reply">>)
           b == client_append(a, c, "user", <<"result">>)
       IN  convs' = [convs EXCEPT !.clients = [b EXCEPT ![c].turns = @ + 1]]
    /\ UNCHANGED <<loop_vars, bg, reg, runs, fmt, live, cli>>

\* save_messages (lines 108-139): the file is named by the second of the clock
\* and opened with "w"; then the loop ends
ConvSave(c) ==
    /\ convs.clients[c].state = "open"
    /\ convs.clients[c].turns = convs.clients[c].queries
    /\ convs' = [convs EXCEPT
                    !.logs = { f \in @ : f.timestamp # convs.now } \cup
                             { [timestamp |-> convs.now,
                                user_prompt |-> convs.clients[c].prompt,
                                messages |-> convs.clients[c].messages,
                                usage |-> convs.clients[c].usage] },
                    !.clients[c].state = "closed"]
    /\ UNCHANGED <<loop_vars, bg, reg, runs, fmt, live, cli>>

\* datetime.now() moves to the next second
ConvTick ==
    /\ convs.now < MaxClock
    /\ convs' = [convs EXCEPT !.now = @ + 1]
    /\ UNCHANGED <<loop_vars, bg, reg, runs, fmt, live, cli>>

NextConversations ==
    \/ ConvTick
    \/ \E c \in 1..MaxConversations :
          \/ ConvStart(c)
          \/ ConvQuery(c)
          \/ ConvAppend(c)
          \/ ConvSave(c)

SpecConversations == InitConversations /\ [][NextConversations]_vars

(***************************************************************************)
(* format_command_result on its own, over the results the runner can       *)
(* return                                                                  *)
(***************************************************************************)
FormatOutputs == {"", "file1\nfile2", "Errors:"}
FormatErrors == {"", "bash: foo: command not found"}
FormatAdditionalErrors ==
    { <<>>, <<TIMEOUT_ERROR>>, <<"Unexpected error: ", SPAWN_ERROR>> }
FormatReturncodes == {0, 1, 127, SIGKILLED, 0 - 1}

InitFormat ==
    /\ LoopInit
    /\ bg = BgIdle
    /\ reg = RegIdle
    /\ runs = RunsIdle
    /\ convs = ConvsIdle
    /\ live = LiveIdle
    /\ cli = CliIdle
    /\ fmt \in { [FmtIdle EXCEPT !.input = [output |-> o, error |-> e,
                                           additional_error |-> a, returncode |-> rc]] :
                    o \in FormatOutputs, e \in FormatErrors,
                    a \in FormatAdditionalErrors, rc \in FormatReturncodes }

\* line 276: formatted_result = self.format_command_result(payload)
FormatApply ==
    /\ ~fmt.applied
    /\ fmt' = [fmt EXCEPT !.applied = TRUE, !.text = format_command_result(fmt.input)]
    /\ UNCHANGED <<loop_vars, bg, reg, runs, convs, live, cli>>

NextFormat == FormatApply

SpecFormat == InitFormat /\ [][NextFormat]_vars

(***************************************************************************)
(* The control of process_user_request with its cost, for runs of any      *)
(* length: every query returns and reports tokens, every action returns.   *)
(* A total cost above the ceiling is kept as ceiling + 1: the loop only    *)
(* compares it with the ceiling.                                           *)
(***************************************************************************)
LiveCap == ABORT_ON_TOTAL_COST + 1

\* total_cost after update_usage_stats, kept at most LiveCap
live_cost(total_cost, u) ==
    LET c == total_cost + u[1] * INPUT_COST_PER_MILLION + u[2] * OUTPUT_COST_PER_MILLION
    IN  IF c > LiveCap THEN LiveCap ELSE c

\* where lines 253-306 take a reply
ReplyClass(text) ==
    LET obj == parse_response(text) IN
    IF ~ObjectTruthy(obj) THEN "malformed"
    ELSE IF obj.kind # "object" THEN "exception"
    ELSE IF ~ToolTruthy(obj.tool_to_use) THEN "no_selection"
    ELSE IF obj.tool_to_use.kind # "object" THEN "exception"
    ELSE IF obj.tool_to_use.name \in KnownTools THEN "action"
    ELSE IF obj.tool_to_use.name = "task_complete" THEN "task_complete"
    ELSE "unknown"

InitLive ==
    /\ LoopInit
    /\ bg = BgIdle
    /\ reg = RegIdle
    /\ runs = RunsIdle
    /\ convs = ConvsIdle
    /\ fmt = FmtIdle
    /\ live = LiveIdle
    /\ cli = CliIdle

\* lines 242-248; a failure to construct the client ends the loop (315-317)
LiveStart ==
    /\ live.pc = "start"
    /\ \/ live' = [live EXCEPT !.pc = "query"]
       \/ live' = [live EXCEPT !.pc = "done"]
    /\ UNCHANGED <<loop_vars, bg, reg, runs, convs, fmt, cli>>

\* lines 251-271: the query returns; a malformed reply goes back to the query
\* (continue on line 259), a known action is executed, anything else ends
LiveQuery ==
    /\ live.pc = "query"
    /\ \E u \in UsageChoices, text \in Replies :
          live' = [pc |-> CASE ReplyClass(text) = "malformed" -> "query"
                            [] ReplyClass(text) = "action" -> "execute"
                            [] OTHER -> "done",
                   total_cost |-> live_cost(live.total_cost, u),
                   response_text |-> text]
    /\ UNCHANGED <<loop_vars, bg, reg, runs, convs, fmt, cli>>

\* lines 273-293: the action returns, or raises and ends the loop
LiveExecute ==
    /\ live.pc = "execute"
    /\ \/ live' = [live EXCEPT !.pc = "costcheck"]
       \/ live' = [live EXCEPT !.pc = "done"]
    /\ UNCHANGED <<loop_vars, bg, reg, runs, convs, fmt, cli>>

\* lines 308-313
LiveCostCheck ==
    /\ live.pc = "costcheck"
    /\ live' = [live EXCEPT !.pc = IF cost_exceeded(ABORT_ON_TOTAL_COST, live.total_cost)
                                    THEN "done" ELSE "query"]
    /\ UNCHANGED <<loop_vars, bg, reg, runs, convs, fmt, cli>>

NextLive == LiveStart \/ LiveQuery \/ LiveExecute \/ LiveCostCheck

\* the loop is never suspended for ever: each step that can be taken is taken
SpecLive == InitLive /\ [][NextLive]_vars /\ WF_vars(NextLive)

(***************************************************************************)
(* cli_main (lines 357-395) consuming the events of a conversation: the    *)
(* streams are those process_user_request yields, iteration by iteration   *)
(***************************************************************************)
CLI_RESULT == [output |-> "file1\nfile2", error |-> "", additional_error |-> <<>>, returncode |-> 0]
CLI_REPLY ==
    parse_response("{\"tool_to_use\": {\"name\": \"read_file\", \"parameters\": {\"filename\": \"/etc/hosts\"}}}")

\* what one iteration that returns to the query yields
CliIterations ==
    { << event("AI_RESPONSE", TextPayload(<<"not json">>)),
         event("WARN", TextPayload(<<"Invalid JSON data provided. Trying again.">>)) >>,
      << event("AI_RESPONSE", ObjectPayload(CLI_REPLY)),
         event("TOOL_SUCCESS", ResultPayload(CLI_RESULT)) >>,
      << event("AI_RESPONSE", ObjectPayload(CLI_REPLY)),
         event("TOOL_SUCCESS", TextPayload(<<"Successfully read ", "/etc/hosts", ":\n",
                                             "127.0.0.1 localhost">>)) >>,
      << event("AI_RESPONSE", ObjectPayload(CLI_REPLY)),
         event("TOOL_ERROR", TextPayload(<<"Missing filename parameter for read_file">>)) >> }

\* what the last iteration yields
CliEndings ==
    { << event("AI_RESPONSE", ObjectPayload(CLI_REPLY)),
         event("INFO", TextPayload(<<"Conversation saved to ", "logs/conversation_1.json">>)),
         event("COMPLETED", TextPayload(<<"done">>)) >>,
      << event("AI_RESPONSE", ObjectPayload(CLI_REPLY)),
         event("ABORT", TextPayload(<<"No tool selection provided. Exiting.">>)) >>,
      << event("ABORT", TextPayload(<<QUERY_ERROR>>)) >> }

\* a conversation whose client could not be constructed
CLIENT_FAILED == << event("ABORT", TextPayload(<<CLIENT_ERROR>>)) >>

RECURSIVE CliPrefixes(_)
CliPrefixes(n) ==
    IF n = 0 THEN { <<>> }
    ELSE CliPrefixes(n - 1) \cup
         { p \o i : p \in CliPrefixes(n - 1), i \in CliIterations }

CliStreams ==
    { p \o e : p \in CliPrefixes(MaxIterations), e \in CliEndings } \cup { CLIENT_FAILED }

InitCli ==
    /\ LoopInit
    /\ bg = BgIdle
    /\ reg = RegIdle
    /\ runs = RunsIdle
    /\ convs = ConvsIdle
    /\ fmt = FmtIdle
    /\ live = LiveIdle
    /\ cli \in { [CliIdle EXCEPT !.stream = st] : st \in CliStreams }

CliEvent == cli.stream[cli.next]

\* the heading the match statement prints for an event type (lines 366-387)
CliHeading(type) ==
    CASE type = "AI_RESPONSE" -> "=== AI Response ==="
      [] type = "TOOL_SUCCESS" -> "=== Tool Output ==="
      [] type = "TOOL_ERROR" -> "=== Tool Output - ERROR ==="
      [] type = "INFO" -> "==> "
      [] type = "WARN" -> "==> WARNING: "
      [] type = "ABORT" -> "==> ERROR: "
      [] type = "COMPLETED" -> "==> The AI has completed the task. Exiting."

\* lines 364-391 for an event that is not TOOL_SUCCESS: heading and payload
CliRender ==
    /\ cli.status = "consuming"
    /\ cli.next <= Len(cli.stream)
    /\ CliEvent.type # "TOOL_SUCCESS"
    /\ cli' = [cli EXCEPT !.printed = Append(@, CliHeading(CliEvent.type)),
                          !.next = @ + 1]
    /\ UNCHANGED <<loop_vars, bg, reg, runs, convs, fmt, live>>

\* lines 369-374: event["payload"]["returncode"] on a dict payload
CliRenderResult ==
    /\ cli.status = "consuming"
    /\ cli.next <= Len(cli.stream)
    /\ CliEvent.type = "TOOL_SUCCESS"
    /\ CliEvent.payload.kind = "result"
    /\ cli' = [cli EXCEPT !.printed = @ \o << CliHeading("TOOL_SUCCESS") >>
                                        \o format_command_result(CliEvent.payload.result),
                          !.next = @ + 1]
    /\ UNCHANGED <<loop_vars, bg, reg, runs, convs, fmt, live>>

\* lines 369-371 on a str payload: the subscript raises TypeError, which the
\* except of lines 393-394 prints; the async for is left
CliRenderText ==
    /\ cli.status = "consuming"
    /\ cli.next <= Len(cli.stream)
    /\ CliEvent.type = "TOOL_SUCCESS"
    /\ CliEvent.payload.kind = "text"
    /\ cli' = [cli EXCEPT !.printed = @ \o << CliHeading("TOOL_SUCCESS"),
                                              "Exception: string indices must be integers, not 'str'" >>,
                          !.status = "exception"]
    /\ UNCHANGED <<loop_vars, bg, reg, runs, convs, fmt, live>>

\* the generator is exhausted; lines 396-398 print the usage summary, which
\* raises AttributeError out of cli_main when self.client is None
CliEnd ==
    /\ cli.status = "consuming"
    /\ cli.next > Len(cli.stream)
    /\ cli' = [cli EXCEPT !.status = IF cli.stream = CLIENT_FAILED THEN "crashed" ELSE "finished"]
    /\ UNCHANGED <<loop_vars, bg, reg, runs, convs, fmt, live>>

NextCli == CliRender \/ CliRenderResult \/ CliRenderText \/ CliEnd

SpecCli == InitCli /\ [][NextCli]_vars

(***************************************************************************)
(* Properties                                                              *)
(***************************************************************************)
Last(seq) == seq[Len(seq)]

Count(seq, P(_)) == Cardinality({ i \in 1..Len(seq) : P(seq[i]) })

IsActionEvent(e) == e.type \in {"TOOL_SUCCESS", "TOOL_ERROR"}
IsUserMessage(m) == m.role = "user"

ShellPcs == {"sh_create", "sh_spawn", "sh_wait", "sh_finally", "sh_return"}

\* a step of Query in which the model replied (every reply reports tokens)
ReplyReceived == pc = "query" /\ queries' = queries + 1 /\ usage' # usage

WARN_INVALID == event("WARN", TextPayload(<<"Invalid JSON data provided. Trying again.">>))

\* C1: when the reply of the model is not parseable as JSON, the loop yields
\* ModelReply with the raw text and then exactly one Warning, leaves the
\* transcript as it was, runs no action and writes no log, and is back at the
\* model query.
C1_MalformedReplyRetried ==
    [][ (ReplyReceived /\ JsonLoads(response_text').kind = "JSONDecodeError")
        => /\ events' = events \o << event("AI_RESPONSE", TextPayload(<<response_text'>>)),
                                     WARN_INVALID >>
           /\ messages' = messages
           /\ UNCHANGED <<shell_vars, log_vars>>
           /\ pc' = "query" ]_vars

\* C1 witness: "not json" was answered by ModelReply(raw) and a Warning, the
\* transcript still holds the two seed messages, and the model was queried again.
C1_Witness ==
    /\ queries = 2
    /\ Len(events) >= 3
    /\ events[1] = event("AI_RESPONSE", TextPayload(<<"not json">>))
    /\ events[2] = WARN_INVALID
    /\ events[3].type = "AI_RESPONSE"
    /\ SubSeq(messages, 1, 2) = << [role |-> "system", content |-> SYSTEM_PROMPT],
                                   [role |-> "user", content |-> USER_PROMPT] >>

\* the reply behind a ModelReply event names a known action, with parameters
\* that are a mapping (or left out)
IsKnownActionReply(e) ==
    /\ e.type = "AI_RESPONSE"
    /\ e.payload.kind = "object"
    /\ e.payload.object.kind = "object"
    /\ e.payload.object.tool_to_use.kind = "object"
    /\ e.payload.object.tool_to_use.name \in KnownTools
    /\ e.payload.object.tool_to_use.parameters.kind \in {"object", "absent"}

C3_TimeoutResult ==
    (pc \notin ShellPcs /\ process.state = "killed") =>
        command_result = [output |-> "", error |-> "",
                          additional_error |-> <<TIMEOUT_ERROR>>,
                          returncode |-> SIGKILLED]

\* C4: once run_shell_command_async has returned from a run on a command
\* string, the script file it created does not exist.
C4_ScriptRemoved ==
    (pc \notin ShellPcs /\ command.kind = "string") => script_filename \notin scripts

\* C5: a step taken where an action has been executed and the total cost is
\* above the ceiling calls save_messages with aborted_due_cost (the file, when
\* written, holds that conclusion and the transcript), yields Aborted as the
\* last event and ends the loop without a model query; an ended loop stays
\* ended and queries no more.
C5_AbortOnCost ==
    [][ /\ (pc = "costcheck" /\ get_total_cost(usage) > ABORT_ON_TOTAL_COST)
           => /\ save_calls' = Append(save_calls, "aborted_due_cost")
              /\ \/ logs' = logs
                 \/ logs' = Append(logs, [conclusion |-> "aborted_due_cost",
                                          user_prompt |-> USER_PROMPT,
                                          messages |-> messages, usage |-> usage])
              /\ Len(events') > Len(events)
              /\ Last(events').type = "ABORT"
              /\ pc' = "done"
              /\ queries' = queries
        /\ pc = "done" => (pc' = "done" /\ queries' = queries /\ events' = events) ]_vars

\* C5 witness: the cost passed the ceiling with the first action, the log was
\* written with aborted_due_cost, Aborted closed the stream, and the model was
\* not queried again although the bound on queries was not reached.
C5_Witness ==
    /\ pc = "done"
    /\ queries = 1
    /\ queries < MaxQueries
    /\ get_total_cost(usage) > ABORT_ON_TOTAL_COST
    /\ save_calls = <<"aborted_due_cost">>
    /\ Len(logs) = 1 /\ logs[1].conclusion = "aborted_due_cost"
    /\ Count(events, IsActionEvent) = 1
    /\ Last(events).type = "ABORT"

RECURSIVE SumCost(_)
\* cost of a sequence of usage additions, added up one addition at a time
SumCost(adds) ==
    IF adds = <<>> THEN 0
    ELSE adds[1][1] * INPUT_COST_PER_MILLION + adds[1][2] * OUTPUT_COST_PER_MILLION
         + SumCost(Tail(adds))

\* C6: after any sequence of usage additions the budget check answers true
\* exactly when the ceiling is positive and the cost of the additions is
\* strictly above it; with a ceiling of zero or below it answers false.
C6_BudgetCheck ==
    bg.checked =>
        /\ bg.result = (bg.ceiling > 0 /\ SumCost(bg.adds) > bg.ceiling)
        /\ (bg.ceiling <= 0 => ~bg.result)

\* C6 witness: additions that cost exactly the positive ceiling were checked
\* and the check answered false.
C6_Witness ==
    /\ bg.checked
    /\ bg.adds # <<>>
    /\ bg.ceiling = ABORT_ON_TOTAL_COST
    /\ SumCost(bg.adds) = bg.ceiling
    /\ ~bg.result

\* C7: when task_complete was selected, the transcript is saved with
\* conclusion completed and after that Completed with the summary is yielded
\* as the last event.
C7_CompletedAfterSave ==
    (pc = "done" /\ save_calls = <<"completed">>) =>
        /\ Len(logs) = 1
        /\ logs[1].conclusion = "completed"
        /\ Last(events).type = "COMPLETED"
        /\ Last(events).payload.text =
              << IF parameters.summary = NoneVal THEN "" ELSE parameters.summary >>

\* C8: when the parsed reply holds no tool selection the loop ends with the
\* Abort that says so and the transcript is saved with conclusion failed.
C8_NoSelectionSaved ==
    (pc = "done" /\ ObjectTruthy(response_object) /\ response_object.kind = "object"
                 /\ ~ToolTruthy(response_object.tool_to_use)) =>
        /\ Last(events) = event("ABORT", TextPayload(<<"No tool selection provided. Exiting.">>))
        /\ save_calls = <<"failed">>

\* C9: once a reply that is valid JSON without tool_to_use has been handled,
\* the loop has ended with the Abort for a missing selection.
C9_ValidJsonWithoutSelectionAborts ==
    (/\ response_text # NoneVal
     /\ pc # "dispatch"
     /\ JsonLoads(response_text).kind # "JSONDecodeError"
     /\ JsonLoads(response_text).tool_to_use.kind = "absent") =>
        /\ pc = "done"
        /\ Last(events) = event("ABORT", TextPayload(<<"No tool selection provided. Exiting.">>))

\* C10: when the selected name is neither task_complete nor a known action,
\* the transcript is saved with conclusion failed, the last event is the Abort
\* that names the tool, no action ran and the loop has ended.
C10_UnknownToolAborts ==
    (/\ pc \notin {"query", "dispatch"}
     /\ ObjectTruthy(response_object)
     /\ ToolTruthy(response_object.tool_to_use)
     /\ response_object.tool_to_use.kind = "object"
     /\ response_object.tool_to_use.name \notin KnownTools \cup {"task_complete"}) =>
        /\ pc = "done"
        /\ save_calls = <<"failed">>
        /\ Last(events) = event("ABORT", TextPayload(<<"Unknown tool selected: ",
                                    response_object.tool_to_use.name, ". Exiting.">>))
        /\ Count(events, IsActionEvent) = Count(events, IsKnownActionReply)

IsClosingEvent(e) == e.type \in {"COMPLETED", "ABORT"}
IsWarning(e) == e.type = "WARN"

\* C11: every step that ends the conversation leaves exactly one closing
\* event (Completed or Aborted) in the stream, as its last event; no closing
\* event is in the stream of a conversation that has not ended; and after the
\* end no query, no action and no event follows.
C11_OneClosingEvent ==
    [][ /\ pc' = "done" => /\ Count(events', IsClosingEvent) = 1
                           /\ IsClosingEvent(Last(events'))
        /\ pc' # "done" => Count(events', IsClosingEvent) = 0
        /\ pc = "done" => UNCHANGED vars ]_vars

\* C11 witness: a conversation that ran an action and then ended on Completed,
\* its only closing event.
C11_Witness ==
    /\ pc = "done"
    /\ Count(events, IsActionEvent) = 1
    /\ Last(events).type = "COMPLETED"
    /\ Count(events, IsClosingEvent) = 1

\* C12: save_messages is called at most once in a conversation, and once it
\* has been called the conversation has ended (no model query and no action
\* follows).
C12_SaveOnceAtEnd ==
    /\ Len(save_calls) <= 1
    /\ Len(logs) <= Len(save_calls)
    /\ save_calls # <<>> => pc = "done"

\* C12 witness: after one executed action the conversation ended on an unknown
\* tool with its single save.
C12_Witness ==
    /\ pc = "done"
    /\ save_calls = <<"failed">>
    /\ Len(logs) = 1
    /\ Count(events, IsActionEvent) = 1
    /\ queries < MaxQueries + 1

\* the closing event of the terminal transition a save belongs to
ClosingTypeOf(conclusion) == IF conclusion = "completed" THEN "COMPLETED" ELSE "ABORT"

\* C13: when save_messages failed on a terminal transition, the failure was
\* reported by a Warning and the last event is the closing event of that
\* transition (Completed for completed, Aborted for failed and
\* aborted_due_cost).
C13_SaveFailureReported ==
    (pc = "done" /\ Len(save_calls) > Len(logs)) =>
        /\ Count(events, IsWarning) >= 1
        /\ Last(events).type = ClosingTypeOf(Last(save_calls))
        /\ Last(events).payload.text # <<SAVE_ERROR>>

\* C14: a step that yields ActionFailed appends the same message as the user
\* turn that ends the transcript and goes to the cost check, not to the end;
\* from the cost check after a failed action the loop returns to the model
\* query without a further event unless the cost is above the ceiling.
C14_FailedActionContinues ==
    [][ /\ (\E i \in (Len(events) + 1)..Len(events') : events'[i].type = "TOOL_ERROR")
           => /\ Len(events') = Len(events) + 1
              /\ Last(messages') = [role |-> "user", content |-> Last(events').payload.text]
              /\ Len(messages') = Len(messages) + 2
              /\ messages'[Len(messages) + 1] = [role |-> "assistant", content |-> <<response_text>>]
              /\ pc' = "costcheck"
        /\ (pc = "costcheck" /\ Last(events).type = "TOOL_ERROR"
              /\ ~(get_total_cost(usage) > ABORT_ON_TOTAL_COST))
           => /\ pc' = "query"
              /\ events' = events
              /\ messages' = messages ]_vars

\* C14 witness: execute_shell_command without a command failed, the message is
\* the last user turn, and the loop is back at the model query.
C14_Witness ==
    /\ pc = "query"
    /\ queries = 1
    /\ Last(events) = event("TOOL_ERROR",
                            TextPayload(<<"Missing command parameter for execute_shell_command">>))
    /\ Last(messages) = [role |-> "user",
                         content |-> <<"Missing command parameter for execute_shell_command">>]

\* C15: a step that yields ActionSucceeded appends as user turn the text of
\* format_command_result over the result when the payload is a command result,
\* and the payload text itself otherwise; the event carries the result record
\* (or the text), not the formatted text.
C15_SuccessFormatted ==
    [][ (Len(events') = Len(events) + 1 /\ Last(events').type = "TOOL_SUCCESS")
        => /\ Last(messages').role = "user"
           /\ Len(messages') > Len(messages)
           /\ IF tool_name = "execute_shell_command"
              THEN /\ Last(events').payload.kind = "result"
                   /\ Last(events').payload.result = command_result'
                   /\ Last(messages').content = format_command_result(command_result')
              ELSE /\ Last(events').payload.kind = "text"
                   /\ Last(messages').content = Last(events').payload.text ]_vars

\* C15 witness: ls /tmp exited with 0 and two lines of output; the event holds
\* the result record and the user turn holds the formatted text.
C15_Witness ==
    /\ pc = "costcheck"
    /\ Last(events) = event("TOOL_SUCCESS",
                            ResultPayload([output |-> "file1\nfile2", error |-> "",
                                           additional_error |-> <<>>, returncode |-> 0]))
    /\ Last(messages) = [role |-> "user",
                         content |-> <<"Output of the command:\n~~~\n", "file1\nfile2",
                                       "\n~~~\n", "Exit status: ", "0">>]

FENCED_REPLY ==
    "~~~json\n{\"tool_to_use\": {\"name\": \"task_complete\", \"parameters\": {\"summary\": \"done\"}}}\n~~~"

UNFENCED_REPLY ==
    "{\"tool_to_use\": {\"name\": \"task_complete\", \"parameters\": {\"summary\": \"done\"}}}"

\* C16: when the first reply is the task_complete reply inside a json code
\* fence, the ModelReply event carries the object the reply without the fence
\* parses to, no Warning is yielded and the reply is dispatched.
C16_FenceStripped ==
    (queries = 1 /\ response_text = FENCED_REPLY) =>
        /\ events[1] = event("AI_RESPONSE", ObjectPayload(JsonLoads(UNFENCED_REPLY)))
        /\ Count(events, IsWarning) = 0
        /\ pc \in {"dispatch", "done"}

\* the names AgentTools registers with @tool (agent_tools.py:17-180)
ToolsetNames ==
    {"read_file", "write_file", "execute_shell_command", "fetch_webpage", "develop_code"}

\* C17: a reply that selects a name of the registry is executed: the loop
\* does not take the unsupported-action abort for it.
C17_RegistryNamesExecuted ==
    (/\ pc \notin {"query", "dispatch"}
     /\ ObjectTruthy(response_object)
     /\ ToolTruthy(response_object.tool_to_use)
     /\ response_object.tool_to_use.kind = "object"
     /\ response_object.tool_to_use.name \in ToolsetNames) =>
        /\ "failed" \notin { save_calls[i] : i \in 1..Len(save_calls) }
        /\ ~(pc = "done" /\ Last(events).payload.text =
                <<"Unknown tool selected: ", response_object.tool_to_use.name, ". Exiting.">>)

\* C18: a step of fill_toolset that registers a tool whose name is already a
\* key of the registry fails and leaves the registry as it was; no step
\* replaces the entry of an existing name.
C18_DuplicateRejected ==
    [][ /\ (Filling /\ IsToolMethod(method) /\ method.tool_name \in Keys(reg.toolset))
           => (reg'.error # <<>> /\ reg'.toolset = reg.toolset)
        /\ reg.toolset \subseteq reg'.toolset ]_vars

\* C19: a result returned after a failure inside run_shell_command_async has
\* empty output and error, a supplementary error and returncode -1; and a
\* returned returncode of -1 means such a failure happened (it is never the
\* exit status of the child).
C19_SentinelDistinct ==
    (pc = "costcheck" /\ Last(events) = event("TOOL_SUCCESS", ResultPayload(command_result))) =>
        /\ (sh.exc # NoneVal \/ sh.error = Unbound) =>
              /\ command_result.output = ""
              /\ command_result.error = ""
              /\ command_result.additional_error # <<>>
              /\ command_result.returncode = 0 - 1
        /\ command_result.returncode = 0 - 1 => (sh.exc # NoneVal \/ sh.error = Unbound)

\* C20: a child that is running or signalled but not reaped exists only while
\* run_shell_command_async waits for it; after a timeout the child has been
\* killed and reaped when the wait step is over.
C20_ChildReaped ==
    /\ process.state \in {"running", "signalled"} => pc = "sh_wait"
    /\ (pc \notin {"sh_create", "sh_spawn", "sh_wait"} /\ sh.additional_error = <<TIMEOUT_ERROR>>)
          => process = [state |-> "killed", returncode |-> SIGKILLED]

\* C20 witness: the loop is back at the model query after a command that
\* timed out; its child was killed and reaped.
C20_Witness ==
    /\ pc = "query"
    /\ queries = 1
    /\ Last(events).type = "TOOL_SUCCESS"
    /\ sh.additional_error = <<TIMEOUT_ERROR>>
    /\ process.state = "killed"

\* C21: in both backends, two invocations of run_shell_command_async that
\* have written their script use different script files, and the script an
\* interpreter opened holds the command of its own invocation.
C21_DistinctScripts ==
    /\ \A i, j \in 1..Len(runs.inv) :
          (i # j /\ runs.inv[i].pc # "write" /\ runs.inv[j].pc # "write")
             => runs.inv[i].script_filename # runs.inv[j].script_filename
    /\ \A i \in 1..Len(runs.inv) :
          runs.inv[i].pc \in {"wait", "done"} => runs.inv[i].executed = runs.inv[i].command

\* the cost of the two counters at the fixed rates (units of 1e-7 USD)
FixedRateCost(u) ==
    u.prompt_tokens * INPUT_COST_PER_MILLION + u.completion_tokens * OUTPUT_COST_PER_MILLION

\* C22: in every step of a conversation the prompt and completion token
\* counters do not decrease; a step that sets a changed usage to the zero
\* record is the start of the conversation; and after every step the costs
\* are the fixed-rate function of the two counters.
C22_UsageMonotone ==
    [][ /\ usage'.prompt_tokens >= usage.prompt_tokens
        /\ usage'.completion_tokens >= usage.completion_tokens
        /\ (usage' # usage /\ usage' = reset_usage) => pc = "start"
        /\ usage'.prompt_cost = usage'.prompt_tokens * INPUT_COST_PER_MILLION
        /\ usage'.completion_cost = usage'.completion_tokens * OUTPUT_COST_PER_MILLION
        /\ usage'.total_cost = FixedRateCost(usage')
        /\ get_total_cost(usage') = FixedRateCost(usage') ]_vars

\* C22 witness: two queries were made, the second reporting fewer tokens than
\* the first; the counters hold the sums and the cost follows from them.
C22_Witness ==
    /\ queries = 2
    /\ usage.prompt_tokens = 1250000 + 1000
    /\ usage.completion_tokens = 1000 + 100
    /\ usage.total_cost = 5008400

IsPrefix(a, b) == Len(a) <= Len(b) /\ SubSeq(b, 1, Len(a)) = a

\* C23: once the client exists the transcript begins with the system prompt
\* and the task text as user message, and every step keeps the transcript it
\* found as a prefix of the transcript it leaves.
C23_TranscriptAppendOnly ==
    [][ /\ client' = "LLMClient" =>
              /\ Len(messages') >= 2
              /\ messages'[1] = [role |-> "system", content |-> SYSTEM_PROMPT]
              /\ messages'[2] = [role |-> "user", content |-> USER_PROMPT]
        /\ IsPrefix(messages, messages') ]_vars

\* C23 witness: an action was executed and the loop is back at the model query
\* with the four-message transcript system, user, assistant, user.
C23_Witness ==
    /\ pc = "query"
    /\ Len(messages) = 4
    /\ messages[1].role = "system"
    /\ messages[2] = [role |-> "user", content |-> USER_PROMPT]
    /\ messages[3] = [role |-> "assistant", content |-> <<response_text>>]
    /\ messages[4].role = "user"

\* the Conversation State and UsageStats of conversation c
ConvState(cl, c) == << cl[c].messages, cl[c].usage >>

\* C24: a step that changes the transcript or the usage of one conversation
\* leaves the transcript and the usage of every other conversation unchanged,
\* and a step that persists one conversation changes no transcript and no
\* usage at all.
C24_ConversationsIndependent ==
    [][ /\ \A c, d \in 1..Len(convs.clients) :
              (c # d /\ ConvState(convs'.clients, c) # ConvState(convs.clients, c))
                 => ConvState(convs'.clients, d) = ConvState(convs.clients, d)
        /\ convs'.logs # convs.logs =>
              \A c \in 1..Len(convs.clients) :
                  ConvState(convs'.clients, c) = ConvState(convs.clients, c) ]_vars

\* C24 witness: two conversations are open side by side on different tasks,
\* each with its own transcript of four messages and its own usage.
C24_Witness ==
    /\ Len(convs.clients) >= 2
    /\ convs.clients[1].state = "open"
    /\ convs.clients[2].state = "open"
    /\ Len(convs.clients[1].messages) = 4
    /\ Len(convs.clients[2].messages) = 4
    /\ convs.clients[1].messages[2] # convs.clients[2].messages[2]
    /\ convs.clients[1].usage.prompt_tokens = 1000
    /\ convs.clients[2].usage.prompt_tokens = 625000

\* the three checks that abort, as seen from the state a step starts in and
\* the Aborted event it yields
IsBudgetAbort(e) ==
    /\ pc = "costcheck"
    /\ get_total_cost(usage) > ABORT_ON_TOTAL_COST
    /\ Count(events, IsActionEvent) >= 1
    /\ e.payload.text = <<"Total cost is exceeding the limit ($", "0.5", "). Exiting.">>

IsNoSelectionAbort(e) ==
    /\ pc = "dispatch"
    /\ response_object.kind = "object"
    /\ ~ToolTruthy(response_object.tool_to_use)
    /\ e.payload.text = <<"No tool selection provided. Exiting.">>

IsUnsupportedAbort(e) ==
    /\ Selected
    /\ tool_call.kind = "object"
    /\ tool_name \notin KnownTools \cup {"task_complete"}
    /\ e.payload.text = <<"Unknown tool selected: ", tool_name, ". Exiting.">>

\* str(ex) of the exceptions raised inside the try of process_user_request
ExceptionTexts ==
    {CLIENT_ERROR, QUERY_ERROR, SAVE_ERROR} \cup
    { AttributeError(k) : k \in {"array", "number", "string", "null"} }

IsExceptionAbort(e) ==
    \E t \in ExceptionTexts : e.payload.text = <<t>>

\* the Aborted events a step adds to the stream
NewAborts == { events'[i] : i \in { j \in (Len(events) + 1)..Len(events') :
                                      events'[j].type = "ABORT" } }

\* C25 as stated: every Aborted event a step yields comes from the budget
\* check after an action, from the no-selection check or from the
\* unsupported-action check.
C25_ThreeAbortTriggers ==
    [][ \A e \in NewAborts :
            IsBudgetAbort(e) \/ IsNoSelectionAbort(e) \/ IsUnsupportedAbort(e) ]_vars

\* C25 amended: every Aborted event a step yields comes from the budget check
\* after an action, from the no-selection check, from the unsupported-action
\* check, or from an exception raised inside the loop, whose text it carries.
C25_FourAbortTriggers ==
    [][ \A e \in NewAborts :
            \/ IsBudgetAbort(e)
            \/ IsNoSelectionAbort(e)
            \/ IsUnsupportedAbort(e)
            \/ IsExceptionAbort(e) ]_vars

\* C25 witness: after an executed action the second model query failed and
\* the conversation ended on Aborted with the text of the exception.
C25_Witness ==
    /\ pc = "done"
    /\ queries = 2
    /\ Count(events, IsActionEvent) = 1
    /\ Last(events) = event("ABORT", TextPayload(<<QUERY_ERROR>>))

\* C26: no step issues a model query while the total cost is above the
\* (positive) ceiling, whatever the reply of the iteration before was.
C26_NoQueryAboveCeiling ==
    [][ queries' = queries + 1 =>
            ~(ABORT_ON_TOTAL_COST > 0 /\ get_total_cost(usage) > ABORT_ON_TOTAL_COST) ]_vars

\* C27: a step appends at most one assistant message; a step appends one
\* exactly when it leaves the dispatch of a reply that parsed and holds a
\* selection, the message is the raw reply, and it comes before the result of
\* the action in the transcript; no other step appends an assistant message.
IsAssistantMessage(m) == m.role = "assistant"

C27_AssistantAppendedOnce ==
    [][ LET added == Count(messages', IsAssistantMessage) - Count(messages, IsAssistantMessage)
        IN  /\ added \in {0, 1}
            /\ added = 1 <=> (pc = "dispatch" /\ pc' # "dispatch" /\ Selected)
            /\ added = 1 =>
                  /\ messages'[Len(messages) + 1] = [role |-> "assistant",
                                                     content |-> <<response_text>>]
                  /\ \A i \in (Len(messages) + 2)..Len(messages') : messages'[i].role = "user"
                  /\ Count(events', IsActionEvent) - Count(events, IsActionEvent)
                        = Len(messages') - Len(messages) - 1
            /\ (pc = "query" /\ pc' = "query") => messages' = messages ]_vars

\* C27 witness: the first reply was malformed and not appended, the second
\* selected read_file and was appended once, before the result.
C27_Witness ==
    /\ queries = 2
    /\ pc = "costcheck"
    /\ Count(events, IsWarning) = 1
    /\ Count(messages, IsAssistantMessage) = 1
    /\ Len(messages) = 4
    /\ messages[3] = [role |-> "assistant", content |-> <<response_text>>]

OUTPUT_PLACEHOLDER == "(The command produced no output)"
ERROR_PLACEHOLDER == "(The command produced no error output)"

\* the text has an Errors section: its heading right after the output section
HasErrorsSection(text) == Len(text) > 5 /\ text[4] = "Errors:\n~~~\n"

\* stderr (or its placeholder), then the supplementary error on a line of its own
ErrorsBody(r) ==
    << IF r.error = "" THEN ERROR_PLACEHOLDER ELSE r.error >> \o
    (IF r.additional_error = <<>> THEN <<>> ELSE <<"\n">> \o r.additional_error)

\* C28: for exit code 0 and non-empty stdout the text is exactly
\* "Output of the command:" + fence + stdout + fence + "Exit status: 0"; for
\* every result the Errors section (stderr plus the supplementary error) is
\* present iff the exit code is not 0; an empty stdout is replaced by the
\* placeholder; the text ends with the exit status.
C28_FormatCommandResult ==
    fmt.applied =>
        LET r == fmt.input
            out == IF r.output = "" THEN OUTPUT_PLACEHOLDER ELSE r.output
            head == <<"Output of the command:\n~~~\n", out, "\n~~~\n">>
            tail == <<"Exit status: ", ToString(r.returncode)>>
        IN  /\ (r.returncode = 0 /\ r.output # "") =>
                   fmt.text = <<"Output of the command:\n~~~\n", r.output, "\n~~~\n",
                                "Exit status: ", "0">>
            /\ HasErrorsSection(fmt.text) <=> r.returncode # 0
            /\ r.returncode # 0 =>
                   fmt.text = head \o <<"Errors:\n~~~\n">> \o ErrorsBody(r) \o <<"\n~~~\n">> \o tail
            /\ r.returncode = 0 => fmt.text = head \o tail

\* C28 witness: exit code 0 with two lines of stdout and with stderr text
\* that the formatted text leaves out.
C28_Witness ==
    /\ fmt.applied
    /\ fmt.input.returncode = 0
    /\ fmt.input.output = "file1\nfile2"
    /\ fmt.input.error = "bash: foo: command not found"
    /\ fmt.text = <<"Output of the command:\n~~~\n", "file1\nfile2", "\n~~~\n",
                    "Exit status: ", "0">>

\* the roles after the system prompt alternate user, assistant, user, ...
RECURSIVE Alternates(_, _)
Alternates(msgs, i) ==
    IF i > Len(msgs) THEN TRUE
    ELSE /\ msgs[i].role = (IF i % 2 = 0 THEN "user" ELSE "assistant")
         /\ Alternates(msgs, i + 1)

\* C29: whenever the loop is about to query the model the transcript is
\* system, user, (assistant, user)*: it ends with a user message, the roles
\* alternate after the system prompt, and the user messages are one more than
\* the action-execution events yielded so far.
C29_TranscriptShapeAtQuery ==
    pc = "query" =>
        /\ Len(messages) >= 2
        /\ messages[1].role = "system"
        /\ Alternates(messages, 2)
        /\ Last(messages).role = "user"
        /\ Count(messages, IsUserMessage) = 1 + Count(events, IsActionEvent)

\* C29 witness: the loop is at its second query after a shell command, with
\* the transcript system, user, assistant, user and one action event.
C29_Witness ==
    /\ pc = "query"
    /\ queries = 1
    /\ Len(messages) = 4
    /\ Count(events, IsActionEvent) = 1
    /\ command_result # NoResult
    /\ Last(messages) = [role |-> "user", content |-> format_command_result(command_result)]

\* C30: with every query returning and reporting tokens, every action
\* returning and a positive ceiling, the loop eventually ends (a closing
\* event is yielded exactly when it ends).
C30_EventuallyCloses == <>(live.pc = "done")

\* the stream a step leaves is the stream it found plus one Aborted event
\* with the text of the exception, and the loop has ended
AbortedWith(text) ==
    /\ events' = Append(events, event("ABORT", TextPayload(<<text>>)))
    /\ pc' = "done"

\* C31: a step in which an exception is raised inside the loop (the client
\* cannot be constructed, the query fails, the reply is not an object,
\* tool_to_use or parameters is not a mapping) adds exactly one Aborted event
\* carrying the exception text and ends the loop; an ended loop has one
\* closing event, the last of the stream, and does nothing more.
C31_ExceptionsBecomeOneAbort ==
    [][ /\ (pc = "start" /\ pc' = "done") => AbortedWith(CLIENT_ERROR)
        /\ (pc = "query" /\ pc' = "done") => AbortedWith(QUERY_ERROR)
        /\ (pc = "dispatch" /\ response_object.kind # "object")
              => AbortedWith(AttributeError(response_object.kind))
        /\ (Selected /\ tool_call.kind # "object")
              => AbortedWith(AttributeError(tool_call.kind))
        /\ (Selected /\ tool_call.kind = "object"
              /\ tool_name \in KnownTools \cup {"task_complete"}
              /\ parameters.kind # "object")
              => AbortedWith(AttributeError(parameters.kind))
        /\ pc' = "done" => /\ Count(events', IsClosingEvent) = 1
                           /\ IsClosingEvent(Last(events'))
        /\ pc = "done" => UNCHANGED vars ]_vars

\* C31 witness: after an executed action the reply {"tool_to_use": "ls"} made
\* tool_call.get raise; the stream ended on the one Aborted event with the
\* text of the AttributeError.
C31_Witness ==
    /\ pc = "done"
    /\ queries = 2
    /\ Count(events, IsActionEvent) = 1
    /\ response_text = "{\"tool_to_use\": \"ls\"}"
    /\ Last(events) = event("ABORT", TextPayload(<<"'str' object has no attribute 'get'">>))
    /\ Count(events, IsClosingEvent) = 1

\* C32: cli_main stops consuming only after it has rendered every event of
\* the stream, the closing event included; while it consumes it has rendered
\* every event before the next one.
C32_CliRendersAllEvents ==
    /\ cli.status # "consuming" =>
          /\ cli.next = Len(cli.stream) + 1
          /\ IsClosingEvent(cli.stream[cli.next - 1])
    /\ Len(cli.printed) >= cli.next - 1

====
